---------------------------- MODULE Spec2Model ----------------------------
(***************************************************************************)
(* A model of ChatPaper's local-PDF pipeline (src/chat_paper_simple.py and *)
(* src/src/paper_info_extractor.py):                                       *)
(*   - TokenManager: smart_truncate and its three strategies,              *)
(*   - Paper: the section index built by _get_all_page_index,              *)
(*   - Reader: the sequential and the thread-pool batch, the per-document  *)
(*     worker, its PDF handles and its bounded LLM retry loop.             *)
(*                                                                         *)
(* Text is a sequence of symbols.  The tokenizer (tiktoken's gpt2          *)
(* encoding, a library) is modelled as a symbol-level coding: every symbol *)
(* of the alphabet is one token, encode wraps a symbol into a token and    *)
(* decode unwraps it.  A symbol also has a length in characters, which is  *)
(* what _clean_truncation measures.                                        *)
(***************************************************************************)
EXTENDS Integers, Sequences, FiniteSets, TLC

VARIABLES
    \* ---- TokenManager.smart_truncate: one call
    text,              \* the text argument
    strategy,          \* the strategy argument
    max_token_num,     \* TokenManager.max_token_num
    reserved_tokens,   \* the reserved_tokens argument
    outcome,           \* "pending" | "returned" | "raised"
    returned,          \* the text the call returned
    \* ---- Paper._get_all_page_index: one document
    pdf_pages,         \* the pages of the PDF, each a sequence of lines
    page_index,        \* the page the outer loop is at (0-based)
    section_page_dict, \* the dict being built, in insertion order
    index_pc,          \* "idle" | "scanning" | "done" | "sections" | "parsed"
    section_text_dict, \* the dict _get_all_page returns, in insertion order
    paper_info_text,   \* section_text_dict["paper_info"]
    \* ---- Reader: one batch over pdf_paths = 1..NumDocs
    mode,              \* "sequential" (summary_with_chat) | "parallel"
    max_workers,       \* the size of the thread pool
    file_hash,         \* per path: the md5 of its bytes
    progress,          \* the hashes recorded as 'completed'
    merged_csv,        \* the lines of the merged CSV file
    csv_header_written,
    progress_at_start, \* what load_progress returned when the batch started
    csv_lock,          \* the threads inside a `with self.csv_lock` block
    batch_pc,          \* "idle" | "loop" | "filter" | "pool" | "done" | "aborted"
    pdf_index,         \* the path the loop over pdf_paths is at (1-based)
    counts,            \* processed_count, skipped_count, failed_count
    tally,             \* per path: the counter it was added to, or "none"
    task,              \* per path: the state of its worker call
    \* ---- enhance_paper_with_local_info: one document
    paper_title,       \* paper.title
    info_input,        \* what the extractors find in the file and its path
    paper_info,        \* the PaperInfo extract_paper_info returned
    enhanced_info,     \* the dict enhance_paper_with_local_info returned
    info_pc,           \* "idle" | "start" | "extracted" | "done"
    \* ---- Paper.get_title: one document
    title_doc,         \* per page: the first runs of its text blocks
    max_font_sizes,    \* the sorted list of the first pass
    cur_title,         \* the runs joined into the title so far
    title_page,        \* Paper.title_page
    title_scan,        \* the page the second pass is at (0-based)
    title_pc,          \* "idle" | "sizes" | "scan" | "done"
    \* ---- Reader.chat_conclusion_with_local_info under the retry loops
    call_mode,         \* "none" | "sequential" | "parallel"
    chat_api_list,     \* the pool of keys, the sequence <<0, .., n-1>>
    cur_api,           \* Reader.cur_api
    selected,          \* what the calls assigned to openai.api_key, in order
    caller,            \* per worker call: where its retry loop is
    \* ---- PaperInfoExtractor: one call of one field extractor
    field,             \* "none" | "year" | "venue" | "arxiv"
    field_input,       \* what the call is given
    field_output,      \* what it returned
    field_pc           \* "idle" | "start" | "done"

truncVars == <<text, strategy, max_token_num, reserved_tokens, outcome, returned>>

indexVars == <<pdf_pages, page_index, section_page_dict, index_pc, section_text_dict,
               paper_info_text>>

batchVars == <<mode, max_workers, file_hash, progress_at_start, progress, merged_csv,
               csv_header_written, csv_lock, batch_pc, pdf_index, counts, tally,
               task>>

infoVars == <<paper_title, info_input, paper_info, enhanced_info, info_pc>>

titleVars == <<title_doc, max_font_sizes, cur_title, title_page, title_scan, title_pc>>

callVars == <<call_mode, chat_api_list, cur_api, selected, caller>>

fieldVars == <<field, field_input, field_output, field_pc>>

vars == <<truncVars, indexVars, batchVars, infoVars, titleVars, callVars, fieldVars>>

\* What the steps of one part of the program leave alone: the other parts.
truncRest == <<indexVars, batchVars, infoVars, titleVars, callVars, fieldVars>>

indexRest == <<truncVars, batchVars, infoVars, titleVars, callVars, fieldVars>>

batchRest == <<truncVars, indexVars, infoVars, titleVars, callVars, fieldVars>>

infoRest == <<truncVars, indexVars, batchVars, titleVars, callVars, fieldVars>>

titleRest == <<truncVars, indexVars, batchVars, infoVars, callVars, fieldVars>>

callRest == <<truncVars, indexVars, batchVars, infoVars, titleVars, fieldVars>>

fieldRest == <<truncVars, indexVars, batchVars, infoVars, titleVars, callVars>>

(***************************************************************************)
(* Python's sequence operations, as the code uses them.                    *)
(***************************************************************************)
Min(a, b) == IF a <= b THEN a ELSE b

Max(a, b) == IF a >= b THEN a ELSE b

\* s[:k]: a negative k counts from the end.
SliceTo(s, k) ==
    IF k >= 0 THEN SubSeq(s, 1, Min(k, Len(s)))
    ELSE SubSeq(s, 1, Max(Len(s) + k, 0))

\* s[k:]: a negative k counts from the end, and s[-0:] is s[0:], the whole of s.
SliceFrom(s, k) ==
    IF k >= 0 THEN SubSeq(s, Min(k, Len(s)) + 1, Len(s))
    ELSE SubSeq(s, Max(Len(s) + k, 0) + 1, Len(s))

\* int(x) of a quotient num/den, den > 0: truncation towards zero.
IntTrunc(num, den) ==
    IF num >= 0 THEN num \div den ELSE -((-num) \div den)

IsSpace(c) == c \in {"NL", "NN", "SP"}

RECURSIVE LStrip(_)
LStrip(s) ==
    IF s = <<>> THEN <<>>
    ELSE IF IsSpace(Head(s)) THEN LStrip(Tail(s)) ELSE s

RECURSIVE RStrip(_)
RStrip(s) ==
    IF s = <<>> THEN <<>>
    ELSE IF IsSpace(s[Len(s)]) THEN RStrip(SubSeq(s, 1, Len(s) - 1)) ELSE s

\* str.strip()
Strip(s) == RStrip(LStrip(s))

\* The index of the last occurrence of symbol c in s, 0 when there is none.
LastIndexOf(s, c) ==
    IF \E i \in 1..Len(s) : s[i] = c
    THEN CHOOSE i \in 1..Len(s) : s[i] = c /\ \A j \in (i + 1)..Len(s) : s[j] # c
    ELSE 0

\* The index of the first occurrence of symbol c in s, 0 when there is none.
FirstIndexOf(s, c) ==
    IF \E i \in 1..Len(s) : s[i] = c
    THEN CHOOSE i \in 1..Len(s) : s[i] = c /\ \A j \in 1..(i - 1) : s[j] # c
    ELSE 0

\* text.split('\n').  "NN" is a blank-line break, '\n\n': it ends a line and
\* adds an empty one.
RECURSIVE SplitLines(_)
SplitLines(s) ==
    LET i == FirstIndexOf(s, "NL")
        j == FirstIndexOf(s, "NN")
        k == IF i = 0 THEN j ELSE IF j = 0 THEN i ELSE Min(i, j)
    IN  IF k = 0 THEN <<s>>
        ELSE IF s[k] = "NL"
             THEN <<SubSeq(s, 1, k - 1)>> \o SplitLines(SubSeq(s, k + 1, Len(s)))
             ELSE <<SubSeq(s, 1, k - 1), <<>> >> \o SplitLines(SubSeq(s, k + 1, Len(s)))

(***************************************************************************)
(* The alphabet.  A label symbol stands for a section label with its       *)
(* colon; "c" and "d" stand for the Chinese phrases inside the two elision *)
(* markers.                                                                *)
(***************************************************************************)
priority_sections ==
    << "Title:", "Paper_info:", "Abstract:",
       "Introduction:", "Method:", "Methods:", "Methodology:", "Approach:", "Approaches:",
       "Results:", "Experimental Results:", "Findings:",
       "Conclusion:", "Discussion:", "Results and Discussion:",
       "Related Work:", "Background:", "Preliminary:", "Problem Formulation:",
       "Experiments:", "Experiment:", "Evaluation:", "Experiment Settings:",
       "References:" >>

\* section_name.rstrip(':') for each entry of priority_sections.
priority_keys ==
    << "Title", "Paper_info", "Abstract",
       "Introduction", "Method", "Methods", "Methodology", "Approach", "Approaches",
       "Results", "Experimental Results", "Findings",
       "Conclusion", "Discussion", "Results and Discussion",
       "Related Work", "Background", "Preliminary", "Problem Formulation",
       "Experiments", "Experiment", "Evaluation", "Experiment Settings",
       "References" >>

IsLabel(c) == \E i \in 1..Len(priority_sections) : priority_sections[i] = c

\* len() of the string a symbol stands for.
CharLen(c) ==
    CASE c = "NN" -> 2
      [] c = "c" -> 11
      [] c = "d" -> 11
      [] c = "Title:" -> 6
      [] c = "Paper_info:" -> 11
      [] c = "Abstract:" -> 9
      [] c = "Introduction:" -> 13
      [] OTHER -> 1

RECURSIVE CharCount(_)
CharCount(s) == IF s = <<>> THEN 0 ELSE CharLen(Head(s)) + CharCount(Tail(s))

\* len(s) < n.  Every symbol has at least one character, so a sequence of n
\* symbols or more is not shorter than n.
ShorterThan(s, n) == Len(s) < n /\ CharCount(s) < n

(***************************************************************************)
(* TokenManager                                                            *)
(***************************************************************************)
\* self.encoding.encode(text)
encode(t) == [i \in 1..Len(t) |-> [tok |-> t[i]]]

\* self.encoding.decode(tokens)
decode(tokens) == [i \in 1..Len(tokens) |-> tokens[i].tok]

count_tokens(t) == Len(encode(t))

\* The length below which a dangling last sentence is dropped.
DanglingLimit == 50

\* _clean_truncation: sentences = text.split('.'); a short non-blank last
\* fragment is dropped, the text then ends with the last '.'; strip().
clean_truncation(t) ==
    LET p == LastIndexOf(t, ".")
        last == SubSeq(t, p + 1, Len(t))
    IN  IF p > 0 /\ Strip(last) # <<>> /\ ShorterThan(last, DanglingLimit)
        THEN Strip(SubSeq(t, 1, p))
        ELSE Strip(t)

truncate_front(t, max_tokens) ==
    LET tokens == encode(t)
    IN  IF Len(tokens) > max_tokens
        THEN clean_truncation(decode(SliceTo(tokens, max_tokens)))
        ELSE t

\* "\n\n[...内容因长度限制有所省略...]\n\n"
separator == << "NN", "[", ".", ".", ".", "c", ".", ".", ".", "]", "NN" >>

truncate_balanced(t, max_tokens) ==
    LET tokens == encode(t)
        front_tokens == IntTrunc(max_tokens * 4, 10)
        back_tokens == IntTrunc(max_tokens * 4, 10)
        combined == decode(SliceTo(tokens, front_tokens)) \o separator
                        \o decode(SliceFrom(tokens, -back_tokens))
        separator_tokens == count_tokens(separator)
        available_tokens == max_tokens - separator_tokens
        front2 == IntTrunc(available_tokens, 2)
        back2 == available_tokens - front2
        combined2 == decode(SliceTo(tokens, front2)) \o separator
                        \o decode(SliceFrom(tokens, -back2))
    IN  IF Len(tokens) <= max_tokens THEN t
        ELSE IF count_tokens(combined) > max_tokens
             THEN clean_truncation(combined2)
             ELSE clean_truncation(combined)

(***************************************************************************)
(* _truncate_sections_priority.  A dict is a sequence of [key, content]    *)
(* entries in insertion order; assigning to a key that is present keeps    *)
(* its place.                                                              *)
(***************************************************************************)
DictHas(d, k) == \E i \in 1..Len(d) : d[i].key = k

DictGet(d, k) == d[CHOOSE i \in 1..Len(d) : d[i].key = k].content

DictSet(d, k, v) ==
    IF DictHas(d, k)
    THEN [i \in 1..Len(d) |-> IF d[i].key = k THEN [key |-> k, content |-> v] ELSE d[i]]
    ELSE Append(d, [key |-> k, content |-> v])

\* The first label of priority_sections that line.strip() starts with, 0 if none.
LabelIndex(line) ==
    LET st == Strip(line)
    IN  IF st # <<>> /\ IsLabel(st[1])
        THEN CHOOSE i \in 1..Len(priority_sections) : priority_sections[i] = st[1]
        ELSE 0

\* One iteration of the loop over the lines; st is
\* [sections, current_section, current_content].
SplitStep(st, line) ==
    LET i == LabelIndex(line)
    IN  IF i > 0
        THEN [sections |-> IF Strip(st.current_content) # <<>>
                           THEN DictSet(st.sections, st.current_section,
                                        Strip(st.current_content))
                           ELSE st.sections,
              current_section |-> priority_keys[i],
              current_content |-> line \o <<"NL">>]
        ELSE [st EXCEPT !.current_content = st.current_content \o line \o <<"NL">>]

RECURSIVE SplitLoop(_, _)
SplitLoop(st, lines) ==
    IF lines = <<>> THEN st ELSE SplitLoop(SplitStep(st, Head(lines)), Tail(lines))

\* The sections dict after the splitting phase.
split_sections(t) ==
    LET st == SplitLoop([sections |-> <<>>, current_section |-> "Header",
                         current_content |-> <<>>], SplitLines(t))
    IN  IF Strip(st.current_content) # <<>>
        THEN DictSet(st.sections, st.current_section, Strip(st.current_content))
        ELSE st.sections

\* "\n\n[...该章节因长度限制被截断...]\n\n"
section_marker == << "NN", "[", ".", ".", ".", "d", ".", ".", ".", "]", "NN" >>

\* A segment is truncated only when more than this many tokens remain.
MinKeepTokens == 100

\* One iteration of the loop over priority_sections; acc is
\* [result_text, used_tokens, stopped], stopped after the break.
PriorityStep(acc, sections, i, max_tokens) ==
    LET section_key == priority_keys[i]
        section_content == DictGet(sections, section_key)
        section_tokens == count_tokens(section_content)
        remaining_tokens == max_tokens - acc.used_tokens
    IN  IF acc.stopped \/ ~DictHas(sections, section_key) THEN acc
        ELSE IF acc.used_tokens + section_tokens <= max_tokens
        THEN [acc EXCEPT !.result_text = acc.result_text \o section_content \o <<"NN">>,
                         !.used_tokens = acc.used_tokens + section_tokens]
        ELSE IF remaining_tokens > MinKeepTokens
        THEN [acc EXCEPT !.result_text = acc.result_text
                              \o truncate_front(section_content, remaining_tokens)
                              \o section_marker,
                         !.stopped = TRUE]
        ELSE [acc EXCEPT !.stopped = TRUE]

RECURSIVE PriorityLoop(_, _, _, _)
PriorityLoop(acc, sections, i, max_tokens) ==
    IF i > Len(priority_sections) THEN acc
    ELSE PriorityLoop(PriorityStep(acc, sections, i, max_tokens), sections, i + 1, max_tokens)

\* One iteration of the loop over sections.items() that appends what carries
\* no priority label.
OtherStep(acc, entry, max_tokens) ==
    LET section_tokens == count_tokens(entry.content)
    IN  IF acc.stopped \/ \E i \in 1..Len(priority_keys) : priority_keys[i] = entry.key
        THEN acc
        ELSE IF acc.used_tokens + section_tokens <= max_tokens
        THEN [acc EXCEPT !.result_text = acc.result_text \o entry.content \o <<"NN">>,
                         !.used_tokens = acc.used_tokens + section_tokens]
        ELSE [acc EXCEPT !.stopped = TRUE]

RECURSIVE OtherLoop(_, _, _, _)
OtherLoop(acc, sections, i, max_tokens) ==
    IF i > Len(sections) THEN acc
    ELSE OtherLoop(OtherStep(acc, sections[i], max_tokens), sections, i + 1, max_tokens)

truncate_sections_priority(t, max_tokens) ==
    LET sections == split_sections(t)
        first == PriorityLoop([result_text |-> <<>>, used_tokens |-> 0, stopped |-> FALSE],
                              sections, 1, max_tokens)
        second == OtherLoop([first EXCEPT !.stopped = FALSE], sections, 1, max_tokens)
    IN  clean_truncation(second.result_text)

\* smart_truncate with the budget test off by one (< for <=).
smart_truncate_strict(t, reserved, strat, max_tok) ==
    LET text_tokens == count_tokens(t)
        max_content_tokens == max_tok - reserved
    IN  IF text_tokens < max_content_tokens
        THEN [kind |-> "returned", value |-> t]
        ELSE IF strat = "front"
        THEN [kind |-> "returned", value |-> truncate_front(t, max_content_tokens)]
        ELSE IF strat = "sections"
        THEN [kind |-> "returned",
              value |-> truncate_sections_priority(t, max_content_tokens)]
        ELSE [kind |-> "returned", value |-> truncate_balanced(t, max_content_tokens)]

\* smart_truncate's result: [kind |-> "returned", value |-> text].  The code
\* has no raise statement on this path.
smart_truncate(t, reserved, strat, max_tok) ==
    LET text_tokens == count_tokens(t)
        max_content_tokens == max_tok - reserved
    IN  IF text_tokens <= max_content_tokens
        THEN [kind |-> "returned", value |-> t]
        ELSE IF strat = "front"
        THEN [kind |-> "returned", value |-> truncate_front(t, max_content_tokens)]
        ELSE IF strat = "balanced"
        THEN [kind |-> "returned", value |-> truncate_balanced(t, max_content_tokens)]
        ELSE IF strat = "sections"
        THEN [kind |-> "returned",
              value |-> truncate_sections_priority(t, max_content_tokens)]
        ELSE [kind |-> "returned", value |-> truncate_balanced(t, max_content_tokens)]

(***************************************************************************)
(* The texts and budgets one call of smart_truncate is checked on.         *)
(***************************************************************************)
\* Short segment bodies have 1..MaxShort words.
MaxShort == 2

Words(n) == [i \in 1..n |-> "w"]

ShortBodies == {Words(n) : n \in 1..MaxShort}

\* A body that ends in a short dangling sentence.
DotBody == <<"w", ".", "w">>

\* A body longer than every budget in use.
LongBody == Words(MinKeepTokens + 12)

Absent == <<"absent">>

\* The line of a segment: its label and its body.
SegLine(label, body) == IF body = Absent THEN <<>> ELSE << <<label>> \o body >>

RECURSIVE JoinLines(_)
JoinLines(ls) ==
    IF ls = <<>> THEN <<>>
    ELSE IF Len(ls) = 1 THEN ls[1]
    ELSE ls[1] \o <<"NL">> \o JoinLines(Tail(ls))

\* The text process_single_paper builds, line by line; h is a line in front
\* of the first label (a direct caller of smart_truncate may pass one); pi2
\* is a second line of the Paper_info block, which is raw page text and has
\* line breaks.
MakeText(h, ti, pi, pi2, ab, intro) ==
    JoinLines((IF h = Absent THEN <<>> ELSE <<h>>)
              \o SegLine("Title:", ti) \o SegLine("Paper_info:", pi)
              \o (IF pi = Absent \/ pi2 = Absent THEN <<>> ELSE <<pi2>>)
              \o SegLine("Abstract:", ab) \o SegLine("Introduction:", intro))

\* A line of the first page that starts like a label: "Abstract: w".
LabelLikeLine == <<"Abstract:", "w">>

Strategies == {"front", "balanced", "sections"}

MaxTokenChoices == {8, 16, MinKeepTokens + 8}

ReservedChoices == {2, 5, 8, 10}

BatchIdle ==
    /\ mode = "none"
    /\ max_workers = 0
    /\ file_hash = <<>>
    /\ progress = {}
    /\ merged_csv = <<>>
    /\ csv_header_written = FALSE
    /\ csv_lock = {}
    /\ progress_at_start = {}
    /\ batch_pc = "idle"
    /\ pdf_index = 0
    /\ counts = [processed |-> 0, skipped |-> 0, failed |-> 0]
    /\ tally = <<>>
    /\ task = <<>>

TitleIdle ==
    /\ title_doc = <<>>
    /\ max_font_sizes = <<>>
    /\ cur_title = <<>>
    /\ title_page = 0
    /\ title_scan = 0
    /\ title_pc = "idle"

CallIdle ==
    /\ call_mode = "none"
    /\ chat_api_list = <<>>
    /\ cur_api = 0
    /\ selected = <<>>
    /\ caller = <<>>

FieldIdle ==
    /\ field = "none"
    /\ field_input = <<>>
    /\ field_output = <<>>
    /\ field_pc = "idle"

InfoIdle ==
    /\ paper_title = ""
    /\ info_input = <<>>
    /\ paper_info = <<>>
    /\ enhanced_info = <<>>
    /\ info_pc = "idle"

IndexIdle ==
    /\ pdf_pages = <<>>
    /\ page_index = 0
    /\ section_page_dict = <<>>
    /\ index_pc = "idle"
    /\ section_text_dict = <<>>
    /\ paper_info_text = <<>>

TruncIdle ==
    /\ text = <<>>
    /\ strategy = "none"
    /\ max_token_num = 0
    /\ reserved_tokens = 0
    /\ outcome = "idle"
    /\ returned = <<>>

InitTrunc ==
    /\ \E h \in {Absent, Words(1)},
          ti \in {Absent} \cup ShortBodies,
          pi \in {Absent, LongBody} \cup ShortBodies,
          pi2 \in {Absent, LabelLikeLine},
          ab \in {Absent, DotBody} \cup ShortBodies,
          intro \in {Absent, Words(1), LongBody} :
            text = MakeText(h, ti, pi, pi2, ab, intro)
    /\ strategy \in Strategies
    /\ max_token_num \in MaxTokenChoices
    /\ reserved_tokens \in ReservedChoices
    /\ outcome = "pending"
    /\ returned = <<>>
    /\ IndexIdle
    /\ BatchIdle
    /\ InfoIdle
    /\ FieldIdle
    /\ CallIdle
    /\ TitleIdle

\* One call of TokenManager.smart_truncate.
SmartTruncate ==
    /\ outcome = "pending"
    /\ LET r == smart_truncate(text, reserved_tokens, strategy, max_token_num)
       IN  /\ outcome' = r.kind
           /\ returned' = r.value
    /\ UNCHANGED <<text, strategy, max_token_num, reserved_tokens, truncRest>>

NextTrunc == SmartTruncate

SpecTrunc == InitTrunc /\ [][NextTrunc]_vars

usable_budget == max_token_num - reserved_tokens

(***************************************************************************)
(* Claims about TokenManager, checked under SpecTrunc.                     *)
(***************************************************************************)
\* seg occurs in t as a contiguous run of symbols.
Contains(t, seg) ==
    \E i \in 1..(Len(t) - Len(seg) + 1) : SubSeq(t, i, i + Len(seg) - 1) = seg

OverBudget == count_tokens(text) > usable_budget

\* C1: with strategy 'sections' and a text over a positive usable budget, the
\* returned text, all of it counted, has at most usable_budget tokens.
C1_SectionsWithinBudget ==
    (outcome = "returned" /\ strategy = "sections" /\ usable_budget > 0 /\ OverBudget)
        => count_tokens(returned) <= usable_budget

\* C2: with strategy 'balanced' and a text over a positive usable budget, however
\* small, the returned text has at most usable_budget tokens.
C2_BalancedWithinBudget ==
    (outcome = "returned" /\ strategy = "balanced" /\ usable_budget > 0 /\ OverBudget)
        => count_tokens(returned) <= usable_budget

\* C3: for every strategy, a text within the usable budget is returned unchanged.
C3_NoOpWithinBudget ==
    (outcome # "pending" /\ ~OverBudget) => (outcome = "returned" /\ returned = text)

\* C3's case: a call returned a text within budget that the cleanup step or the
\* sections strategy would have rewritten.
C3_Witness ==
    /\ outcome = "returned"
    /\ ~OverBudget
    /\ text # <<>>
    /\ clean_truncation(text) # text
    /\ strategy = "sections"
    /\ truncate_sections_priority(text, usable_budget) # text

\* C4: a call with a usable budget <= 0 ends with the InvalidBudget error and
\* returns no text.
C4_InvalidBudgetRejected ==
    (outcome # "pending" /\ usable_budget <= 0) => outcome = "raised"

\* C5: with strategy 'sections', an Abstract segment that fits the usable budget
\* on its own is in the returned text, whole.
C5_AbstractKept ==
    (/\ outcome = "returned"
     /\ strategy = "sections"
     /\ DictHas(split_sections(text), "Abstract")
     /\ count_tokens(DictGet(split_sections(text), "Abstract")) <= usable_budget)
        => Contains(returned, DictGet(split_sections(text), "Abstract"))

(***************************************************************************)
(* Paper._get_all_page_index.  A page's text is a sequence of lines, each  *)
(* ending in '\n'.  A line is a heading, [kind |-> "heading", name, upper] *)
(* (the words of a section name, in upper case when upper), or running     *)
(* text, [kind |-> "body", mentions] (mentions: a section name that occurs *)
(* inside the line, or "none").  The substring tests of the code are       *)
(* decided on the lines: name + '\n' occurs in the page when a line ends   *)
(* with the words of name.                                                 *)
(***************************************************************************)
section_list ==
    << "Abstract",
       "Introduction", "Related Work", "Background",
       "Preliminary", "Problem Formulation",
       "Methods", "Methodology", "Method", "Approach", "Approaches",
       "Materials and Methods", "Experiment Settings",
       "Experiment", "Experimental Results", "Evaluation", "Experiments",
       "Results", "Findings", "Data Analysis",
       "Discussion", "Results and Discussion", "Conclusion",
       "References" >>

\* The section names a heading line ends with: itself, and the names that are
\* its last words.
EndsWith(heading) ==
    {heading} \cup
    (CASE heading = "Experimental Results" -> {"Results"}
       [] heading = "Materials and Methods" -> {"Methods"}
       [] heading = "Results and Discussion" -> {"Discussion"}
       [] OTHER -> {})

\* section_name + '\n' in cur_text
LineIn(section_name, page) ==
    \E i \in 1..Len(page) :
        /\ page[i].kind = "heading"
        /\ ~page[i].upper
        /\ section_name \in EndsWith(page[i].name)

\* section_name in cur_text
BareIn(section_name, page) ==
    \/ LineIn(section_name, page)
    \/ \E i \in 1..Len(page) : page[i].kind = "body" /\ page[i].mentions = section_name

\* section_name.upper() + '\n' in cur_text
UpperLineIn(section_name, page) ==
    \E i \in 1..Len(page) :
        /\ page[i].kind = "heading"
        /\ page[i].upper
        /\ section_name \in EndsWith(page[i].name)

\* The test of the loop body: whether section_name is recorded for this page.
Found(section_name, page) ==
    IF section_name = "Abstract" /\ BareIn(section_name, page) THEN TRUE
    ELSE LineIn(section_name, page) \/ UpperLineIn(section_name, page)

PageDictHas(d, k) == \E i \in 1..Len(d) : d[i].key = k

PageDictGet(d, k) == d[CHOOSE i \in 1..Len(d) : d[i].key = k].page

\* section_page_dict[section_name] = page_index
PageDictSet(d, k, v) ==
    IF PageDictHas(d, k)
    THEN [i \in 1..Len(d) |-> IF d[i].key = k THEN [key |-> k, page |-> v] ELSE d[i]]
    ELSE Append(d, [key |-> k, page |-> v])

\* The inner loop over section_list for one page.
RECURSIVE ScanSections(_, _, _, _)
ScanSections(d, page, pidx, i) ==
    IF i > Len(section_list) THEN d
    ELSE ScanSections(IF Found(section_list[i], page)
                      THEN PageDictSet(d, section_list[i], pidx)
                      ELSE d,
                      page, pidx, i + 1)

\* Documents have 1..MaxPages pages of at most MaxLines lines.
MaxPages == 3

MaxLines == 2

Heading(n, u) == [kind |-> "heading", name |-> n, upper |-> u]

LineChoices ==
    { Heading("Abstract", FALSE), Heading("Introduction", FALSE),
      Heading("Introduction", TRUE), Heading("Experimental Results", FALSE),
      Heading("Data Analysis", FALSE),
      [kind |-> "body", mentions |-> "Abstract"] }

PageChoices == UNION {[1..n -> LineChoices] : n \in 0..MaxLines}

InitIndex ==
    /\ \E n \in 1..MaxPages : pdf_pages \in [1..n -> PageChoices]
    /\ page_index = 0
    /\ section_page_dict = <<>>
    /\ index_pc = "scanning"
    /\ section_text_dict = <<>>
    /\ paper_info_text = <<>>
    /\ TruncIdle
    /\ BatchIdle
    /\ InfoIdle
    /\ FieldIdle
    /\ CallIdle
    /\ TitleIdle

\* One iteration of the loop over the pages.
ScanPage ==
    /\ index_pc = "scanning"
    /\ page_index < Len(pdf_pages)
    /\ section_page_dict' =
           ScanSections(section_page_dict, pdf_pages[page_index + 1], page_index, 1)
    /\ page_index' = page_index + 1
    /\ UNCHANGED <<pdf_pages, index_pc, section_text_dict, paper_info_text, indexRest>>

\* The loop is over: return section_page_dict.
ReturnIndex ==
    /\ index_pc = "scanning"
    /\ page_index = Len(pdf_pages)
    /\ index_pc' = "done"
    /\ UNCHANGED <<pdf_pages, page_index, section_page_dict, section_text_dict,
                   paper_info_text, indexRest>>

NextIndex == ScanPage \/ ReturnIndex

SpecIndex == InitIndex /\ [][NextIndex]_vars

(***************************************************************************)
(* Claims about Paper._get_all_page_index, checked under SpecIndex.        *)
(***************************************************************************)
\* The pages (0-based) on which the pattern of section_name occurs.
PagesWith(section_name) ==
    {p \in 0..(Len(pdf_pages) - 1) : Found(section_name, pdf_pages[p + 1])}

SetMin(S) == CHOOSE x \in S : \A y \in S : x <= y

\* C6: the page stored for a section name is the smallest page index on which
\* its heading pattern occurs.
C6_FirstPageRecorded ==
    index_pc = "done" =>
        \A i \in 1..Len(section_page_dict) :
            section_page_dict[i].page = SetMin(PagesWith(section_page_dict[i].key))

\* C7: in insertion order, the pages of section_page_dict never decrease.
C7_PagesAscending ==
    index_pc = "done" =>
        \A i \in 1..(Len(section_page_dict) - 1) :
            section_page_dict[i].page <= section_page_dict[i + 1].page

(***************************************************************************)
(* Reader: summary_with_chat and summary_with_chat_parallel over the paths *)
(* 1..NumDocs, and the worker call process_single_pdf_complete (or its     *)
(* thread-safe variant) of each path.  A worker's state is                 *)
(*   pc: where the call is; pdf: the handle Paper opened; xpdf: the handle *)
(*   PaperInfoExtractor opened ("none" | "open" | "closed");               *)
(*   retry_count; calls: how often chat_conclusion_with_local_info was     *)
(*   invoked; chat_conclusion_text; success: the value returned.           *)
(* What the file system, the PDF library and the LLM answer is chosen by   *)
(* the environment: every step that can raise has a raising action.  The   *)
(* key rotation inside chat_conclusion_with_local_info and the duration of *)
(* the sleep between attempts are not part of this specification.          *)
(***************************************************************************)
\* A batch has NumDocs paths.
NumDocs == 2

Docs == 1..NumDocs

\* The pool sizes a parallel batch is run with.
WorkerChoices == {1, 2}

\* A retry loop that allows one attempt more.
max_retries_more == 3 + 1

max_retries == 3

\* The lines of the merged CSV file: the header, and the data line written
\* for a path.
csv_header == [kind |-> "header", row |-> 0]

data_row(d) == [kind |-> "data", row |-> d]

NewTask ==
    [pc |-> "queued", pdf |-> "none", xpdf |-> "none", retry_count |-> 0,
     calls |-> 0, chat_conclusion_text |-> "", success |-> FALSE]

\* A path holds content of its own, or the bytes of the first path; the
\* progress file records any of these contents as completed; the merged file
\* of this hour does not exist or holds the header.
InitBatch ==
    /\ mode \in {"sequential", "parallel"}
    /\ max_workers \in IF mode = "sequential" THEN {1} ELSE WorkerChoices
    /\ file_hash \in {h \in [Docs -> Docs] : \A d \in Docs : h[d] \in {1, d}}
    /\ progress \in SUBSET {file_hash[d] : d \in Docs}
    /\ merged_csv \in {<<>>, <<csv_header>>}
    /\ csv_header_written = (merged_csv # <<>>)
    /\ csv_lock = {}
    /\ progress_at_start = progress
    /\ batch_pc = IF mode = "sequential" THEN "loop" ELSE "filter"
    /\ pdf_index = 1
    /\ counts = [processed |-> 0, skipped |-> 0, failed |-> 0]
    /\ tally = [d \in Docs |-> "none"]
    /\ task = [d \in Docs |-> NewTask]
    /\ TruncIdle
    /\ IndexIdle
    /\ InfoIdle
    /\ FieldIdle
    /\ CallIdle
    /\ TitleIdle

\* A test that finds no document processed.
is_paper_processed_never(d) == file_hash[d] \in {}

\* is_paper_processed(pdf_path, progress), once the hash could be read.
is_paper_processed(d) == file_hash[d] \in progress

Count(kind) == [counts EXCEPT ![kind] = counts[kind] + 1]

\* What is left of a worker call once its result was counted: the value it
\* returned and, for the record, the retry_count it ended with.
Counted(t) == [NewTask EXCEPT !.pc = "tallied", !.success = t.success,
                              !.retry_count = t.retry_count]

OtherFrame == UNCHANGED <<batchRest, mode, max_workers, file_hash,
                           progress_at_start>>

\* ---- summary_with_chat: the loop over pdf_paths

\* is_paper_processed raises (get_paper_hash cannot read the file); the call
\* stands outside the try of the loop body, and summary_with_chat is left.
SeqHashRaise ==
    /\ batch_pc = "loop" /\ pdf_index <= NumDocs
    /\ task[pdf_index].pc = "queued"
    /\ batch_pc' = "aborted"
    /\ OtherFrame
    /\ UNCHANGED <<csv_lock, progress, merged_csv, csv_header_written, pdf_index, counts, tally, task>>

SeqSkip ==
    /\ batch_pc = "loop" /\ pdf_index <= NumDocs
    /\ task[pdf_index].pc = "queued"
    /\ is_paper_processed(pdf_index)
    /\ counts' = Count("skipped")
    /\ tally' = [tally EXCEPT ![pdf_index] = "skipped"]
    /\ task' = [task EXCEPT ![pdf_index].pc = "skipped"]
    /\ pdf_index' = pdf_index + 1
    /\ OtherFrame
    /\ UNCHANGED <<csv_lock, progress, merged_csv, csv_header_written, batch_pc>>

\* The loop body enters process_single_pdf_complete.
SeqStart ==
    /\ batch_pc = "loop" /\ pdf_index <= NumDocs
    /\ task[pdf_index].pc = "queued"
    /\ ~is_paper_processed(pdf_index)
    /\ task' = [task EXCEPT ![pdf_index].pc = "open"]
    /\ OtherFrame
    /\ UNCHANGED <<csv_lock, progress, merged_csv, csv_header_written, batch_pc, pdf_index,
                   counts, tally>>

\* What the loop does with the value process_single_pdf_complete returned:
\* count it, and go on with the next path.
SeqTally ==
    /\ batch_pc = "loop" /\ pdf_index <= NumDocs
    /\ task[pdf_index].pc = "returned"
    /\ LET kind == IF task[pdf_index].success THEN "processed" ELSE "failed"
       IN  /\ counts' = Count(kind)
           /\ tally' = [tally EXCEPT ![pdf_index] = kind]
    /\ task' = [task EXCEPT ![pdf_index] = Counted(@)]
    /\ pdf_index' = pdf_index + 1
    /\ OtherFrame
    /\ UNCHANGED <<csv_lock, progress, merged_csv, csv_header_written, batch_pc>>

SeqDone ==
    /\ batch_pc = "loop" /\ pdf_index > NumDocs
    /\ batch_pc' = "done"
    /\ OtherFrame
    /\ UNCHANGED <<csv_lock, progress, merged_csv, csv_header_written, pdf_index, counts, tally, task>>

\* ---- summary_with_chat_parallel: the filter loop, the pool, as_completed

FilterHashRaise ==
    /\ batch_pc = "filter" /\ pdf_index <= NumDocs
    /\ batch_pc' = "aborted"
    /\ OtherFrame
    /\ UNCHANGED <<csv_lock, progress, merged_csv, csv_header_written, pdf_index, counts, tally, task>>

FilterSkip ==
    /\ batch_pc = "filter" /\ pdf_index <= NumDocs
    /\ is_paper_processed(pdf_index)
    /\ counts' = Count("skipped")
    /\ tally' = [tally EXCEPT ![pdf_index] = "skipped"]
    /\ task' = [task EXCEPT ![pdf_index].pc = "skipped"]
    /\ pdf_index' = pdf_index + 1
    /\ OtherFrame
    /\ UNCHANGED <<csv_lock, progress, merged_csv, csv_header_written, batch_pc>>

\* pdf_to_process.append(pdf_path)
FilterKeep ==
    /\ batch_pc = "filter" /\ pdf_index <= NumDocs
    /\ ~is_paper_processed(pdf_index)
    /\ task' = [task EXCEPT ![pdf_index].pc = "submitted"]
    /\ pdf_index' = pdf_index + 1
    /\ OtherFrame
    /\ UNCHANGED <<csv_lock, progress, merged_csv, csv_header_written, batch_pc, counts, tally>>

\* The filter loop is over: return when pdf_to_process is empty, else submit
\* every path of it to the pool.
FilterEnd ==
    /\ batch_pc = "filter" /\ pdf_index > NumDocs
    /\ batch_pc' = IF \E d \in Docs : task[d].pc = "submitted" THEN "pool" ELSE "done"
    /\ OtherFrame
    /\ UNCHANGED <<csv_lock, progress, merged_csv, csv_header_written, pdf_index, counts, tally, task>>

Running(d) == task[d].pc \notin {"queued", "skipped", "submitted", "returned", "tallied"}

\* A pool thread takes the next submitted path, in submission order.
StartTask(d) ==
    /\ batch_pc = "pool"
    /\ task[d].pc = "submitted"
    /\ \A e \in Docs : e < d => task[e].pc # "submitted"
    /\ Cardinality({e \in Docs : Running(e)}) < max_workers
    /\ task' = [task EXCEPT ![d].pc = "open"]
    /\ OtherFrame
    /\ UNCHANGED <<csv_lock, progress, merged_csv, csv_header_written, batch_pc, pdf_index,
                   counts, tally>>

\* as_completed yields a finished future: count the value it returned.
ParTally(d) ==
    /\ batch_pc = "pool"
    /\ task[d].pc = "returned"
    /\ LET kind == IF task[d].success THEN "processed" ELSE "failed"
       IN  /\ counts' = Count(kind)
           /\ tally' = [tally EXCEPT ![d] = kind]
    /\ task' = [task EXCEPT ![d] = Counted(@)]
    /\ OtherFrame
    /\ UNCHANGED <<csv_lock, progress, merged_csv, csv_header_written, batch_pc, pdf_index>>

ParDone ==
    /\ batch_pc = "pool"
    /\ \A d \in Docs : task[d].pc \in {"skipped", "tallied"}
    /\ batch_pc' = "done"
    /\ OtherFrame
    /\ UNCHANGED <<csv_lock, progress, merged_csv, csv_header_written, pdf_index, counts, tally, task>>

\* ---- process_single_pdf_complete / process_single_pdf_complete_thread_safe

At(d, pc) == batch_pc \in {"loop", "pool"} /\ task[d].pc = pc

\* What a worker step never changes.
BatchFrame == OtherFrame /\ UNCHANGED <<batch_pc, pdf_index, counts, tally>>

StoresFrame == UNCHANGED <<csv_lock, progress, merged_csv, csv_header_written>>

\* The except clause of process_single_pdf_complete: paper is still None when
\* Paper(path) raised, so nothing is closed; return False.
PdfExcept(t) == [t EXCEPT !.pc = "returned", !.success = FALSE]

\* The except clause of process_single_paper: return False, which
\* process_single_pdf_complete returns after closing paper.pdf once more.
PaperExcept(t) ==
    [t EXCEPT !.pc = "returned", !.success = FALSE, !.chat_conclusion_text = ""]

\* paper = Paper(path=pdf_path): fitz.open, get_title, then parse_pdf, whose
\* last statement is self.pdf.close().
PaperInit(d) ==
    /\ At(d, "open")
    /\ task' = [task EXCEPT ![d].pdf = "closed", ![d].pc = "enhance"]
    /\ BatchFrame /\ StoresFrame

\* fitz.open(path) raises: there is no handle.
PaperOpenRaise(d) ==
    /\ At(d, "open")
    /\ task' = [task EXCEPT ![d] = PdfExcept(@)]
    /\ BatchFrame /\ StoresFrame

\* get_title, or a statement of parse_pdf before the close, raises: the
\* exception leaves Paper.__init__ with the handle open.
PaperInitRaise(d) ==
    /\ At(d, "open")
    /\ task' = [task EXCEPT ![d] = PdfExcept([@ EXCEPT !.pdf = "open"])]
    /\ BatchFrame /\ StoresFrame

\* enhance_paper_with_local_info: extract_paper_info opens the PDF, runs the
\* extractors and closes it.
Enhance(d) ==
    /\ At(d, "enhance")
    /\ task' = [task EXCEPT ![d].xpdf = "closed", ![d].pc = "call"]
    /\ BatchFrame /\ StoresFrame

\* extract_paper_info: a statement between fitz.open and pdf.close() raises;
\* its except clause returns an empty PaperInfo.
EnhanceCaught(d) ==
    /\ At(d, "enhance")
    /\ task' = [task EXCEPT ![d].xpdf = "open", ![d].pc = "call"]
    /\ BatchFrame /\ StoresFrame

\* What the LLM may answer: text with a data line, or without one.
Answers == {"data", "nodata"}

\* One attempt of the retry loop that succeeds: break.
CallOk(d) ==
    /\ At(d, "call")
    /\ task[d].retry_count < max_retries
    /\ \E a \in Answers :
          task' = [task EXCEPT ![d].calls = @ + 1, ![d].chat_conclusion_text = a,
                               ![d].pc = "append"]
    /\ BatchFrame /\ StoresFrame

\* The except clause of the retry loop: retry_count += 1; the thread-safe
\* variant sleeps while attempts are left; return False when none is left.
AfterFailure(t) ==
    LET n == t.retry_count + 1
    IN  IF n >= max_retries
        THEN [t EXCEPT !.retry_count = n, !.pc = "returned", !.success = FALSE]
        ELSE [t EXCEPT !.retry_count = n]

\* One attempt of the retry loop that raises.
CallRaise(d) ==
    /\ At(d, "call")
    /\ task[d].retry_count < max_retries
    /\ task' = [task EXCEPT ![d] = AfterFailure([@ EXCEPT !.calls = @ + 1])]
    /\ BatchFrame /\ StoresFrame

\* The statements after the retry loop do not read retry_count, and what
\* export_to_markdown writes is not modelled: once the text went to
\* append_to_merged_csv the worker's record drops the loop's counters and
\* the text.
AfterLoop(t) ==
    [t EXCEPT !.pc = "finish", !.chat_conclusion_text = "", !.retry_count = 0,
              !.calls = 0]

\* threading.Lock: a thread enters a `with self.csv_lock` block only while no
\* thread is inside one.
csv_lock_ignored == csv_lock \subseteq Docs

csv_lock_free == csv_lock = {}

\* append_to_merged_csv: `with self.csv_lock` is entered.
AcquireCsv(d) ==
    /\ At(d, "append")
    /\ csv_lock_free
    /\ csv_lock' = csv_lock \cup {d}
    /\ task' = [task EXCEPT ![d].pc = "csv_locked"]
    /\ BatchFrame /\ UNCHANGED <<progress, merged_csv, csv_header_written>>

\* append_to_merged_csv, inside the lock: nothing is written when the text
\* has no data line; else the first write creates the file with the header
\* (mode 'w') and the data line is appended (mode 'a').  The lock is left.
AppendCsv(d) ==
    /\ At(d, "csv_locked")
    /\ IF task[d].chat_conclusion_text = "nodata"
       THEN UNCHANGED <<merged_csv, csv_header_written>>
       ELSE /\ merged_csv' = (IF csv_header_written THEN merged_csv ELSE <<csv_header>>)
                                 \o <<data_row(d)>>
            /\ csv_header_written' = TRUE
    /\ csv_lock' = csv_lock \ {d}
    /\ task' = [task EXCEPT ![d] = AfterLoop(@)]
    /\ BatchFrame /\ UNCHANGED progress

\* append_to_merged_csv, inside the lock: the first open of the merged file
\* raises; the except clause prints, the lock is left and the call returns.
AppendCsvCaught(d) ==
    /\ At(d, "csv_locked")
    /\ task[d].chat_conclusion_text = "data"
    /\ csv_lock' = csv_lock \ {d}
    /\ task' = [task EXCEPT ![d] = AfterLoop(@)]
    /\ BatchFrame /\ UNCHANGED <<progress, merged_csv, csv_header_written>>

\* append_to_merged_csv, inside the lock: the header was written, then the
\* open for appending raises.
AppendRowCaught(d) ==
    /\ At(d, "csv_locked")
    /\ task[d].chat_conclusion_text = "data"
    /\ ~csv_header_written
    /\ merged_csv' = <<csv_header>>
    /\ csv_header_written' = TRUE
    /\ csv_lock' = csv_lock \ {d}
    /\ task' = [task EXCEPT ![d] = AfterLoop(@)]
    /\ BatchFrame /\ UNCHANGED progress

\* os.makedirs or export_to_markdown of the backup file raises.
BackupRaise(d) ==
    /\ At(d, "finish")
    /\ task' = [task EXCEPT ![d] = PaperExcept(@)]
    /\ BatchFrame /\ StoresFrame

\* The thread-safe variant calls mark_paper_completed inside
\* `with self.csv_lock`; process_single_paper calls it without the lock.
MarkLock == mode = "parallel" => csv_lock_free

\* The backup file is written; mark_paper_completed; return True.
MarkCompleted(d) ==
    /\ At(d, "finish")
    /\ MarkLock
    /\ progress' = progress \cup {file_hash[d]}
    /\ task' = [task EXCEPT ![d].pc = "returned", ![d].success = TRUE]
    /\ BatchFrame /\ UNCHANGED <<csv_lock, merged_csv, csv_header_written>>

\* The backup file is written; in mark_paper_completed save_progress raises,
\* after the entry was put into the progress dict.
MarkRaise(d) ==
    /\ At(d, "finish")
    /\ MarkLock
    /\ progress' = progress \cup {file_hash[d]}
    /\ task' = [task EXCEPT ![d] = PaperExcept(@)]
    /\ BatchFrame /\ UNCHANGED <<csv_lock, merged_csv, csv_header_written>>

Worker(d) ==
    \/ PaperInit(d) \/ PaperOpenRaise(d) \/ PaperInitRaise(d)
    \/ Enhance(d) \/ EnhanceCaught(d)
    \/ CallOk(d) \/ CallRaise(d)
    \/ AcquireCsv(d) \/ AppendCsv(d) \/ AppendCsvCaught(d) \/ AppendRowCaught(d)
    \/ BackupRaise(d) \/ MarkCompleted(d) \/ MarkRaise(d)

NextBatch ==
    \/ SeqHashRaise \/ SeqSkip \/ SeqStart \/ SeqTally \/ SeqDone
    \/ FilterHashRaise \/ FilterSkip \/ FilterKeep \/ FilterEnd
    \/ \E d \in Docs : StartTask(d) \/ ParTally(d) \/ Worker(d)
    \/ ParDone

SpecBatch == InitBatch /\ [][NextBatch]_vars

(***************************************************************************)
(* Properties of the batch and its workers                                 *)
(***************************************************************************)
\* C8: every call that opens a PDF has closed the handle when it returns:
\* the Paper handle when process_single_pdf_complete has returned, normally
\* or after an exception, and the extractor's handle when extract_paper_info
\* has returned.
C8_HandlesClosed ==
    \A d \in Docs :
        /\ task[d].pc = "returned" => task[d].pdf # "open"
        /\ task[d].pc \in {"call", "append", "finish", "returned"}
               => task[d].xpdf # "open"

\* C9: for every document and in both paths chat_conclusion_with_local_info
\* is invoked at most 3 times; no invocation follows a success (while the
\* loop runs every invocation so far has failed, and the success that ends
\* it is the last one); after the 3rd failure the document has ended with
\* result False, with exactly 3 invocations made.
C9_AtMostThreeCalls ==
    \A d \in Docs :
        LET t == task[d]
        IN  /\ t.calls <= 3
            /\ t.pc = "call" => (t.calls = t.retry_count /\ t.retry_count < 3)
            /\ t.pc = "append" => t.calls = t.retry_count + 1
            /\ t.retry_count >= 3 => (t.pc \in {"returned", "tallied"} /\ ~t.success)
            /\ (t.pc = "returned" /\ t.retry_count >= 3) => t.calls = 3

\* A parallel batch in which one document has just ended after 3 failed
\* invocations while another succeeded on its 2nd.
C9_Witness ==
    /\ mode = "parallel"
    /\ \E d, e \in Docs :
          /\ d # e
          /\ task[d].pc = "returned" /\ task[d].calls = 3 /\ ~task[d].success
          /\ task[d].retry_count = 3
          /\ task[e].pc = "append" /\ task[e].calls = 2

\* C10: when the LLM call of one document has failed on all attempts, that
\* document is counted as failed, and when the batch has ended every other
\* document was skipped as completed or processed.
C10_OthersStillProcessed ==
    \A d \in Docs :
        (task[d].pc = "tallied" /\ task[d].retry_count >= max_retries)
            => /\ tally[d] = "failed"
               /\ batch_pc \in {"done", "aborted"}
                      => \A e \in Docs : task[e].pc \in {"skipped", "tallied"}

\* C11: the batch is never aborted by one document's failure: a path whose
\* file cannot be read (also for the hash of the already-processed test) is
\* skipped or counted as failed, and the loop goes on.
C11_NeverAborted == batch_pc # "aborted"

\* C12: at most one thread is inside the block that writes the merged file;
\* a merged file that is not empty starts with the header and holds it only
\* once; and a step never shortens or rewrites a file that holds the header:
\* it only appends.
C12_SerializedAppendOnly ==
    /\ [](/\ Cardinality(csv_lock) <= 1
          /\ Cardinality({d \in Docs : task[d].pc = "csv_locked"}) <= 1
          /\ merged_csv # <<>> =>
                /\ merged_csv[1].kind = "header"
                /\ \A i \in 2..Len(merged_csv) : merged_csv[i].kind = "data"
          /\ csv_header_written <=> merged_csv # <<>>)
    /\ [][merged_csv # <<>> =>
             /\ Len(merged_csv') >= Len(merged_csv)
             /\ SubSeq(merged_csv', 1, Len(merged_csv)) = merged_csv]_vars

\* Two threads want to write at once into a file that does not exist yet: one
\* is inside the lock, the other waits at its entry.
C12_Witness ==
    /\ mode = "parallel"
    /\ merged_csv = <<>>
    /\ \E d, e \in Docs :
          /\ d # e
          /\ task[d].pc = "csv_locked" /\ task[d].chat_conclusion_text = "data"
          /\ task[e].pc = "append" /\ task[e].chat_conclusion_text = "data"

\* C13: a document whose hash is recorded as completed when the batch starts
\* is never parsed, never sent to the LLM and gets no line in the merged
\* file; the loop that has passed it, and the batch that has ended, counted
\* it as skipped; and a batch of completed documents only leaves the merged
\* file without a data line.
C13_CompletedSkipped ==
    /\ \A d \in Docs :
          file_hash[d] \in progress_at_start =>
              /\ task[d].pc \in {"queued", "skipped"}
              /\ task[d].pdf = "none" /\ task[d].xpdf = "none"
              /\ task[d].calls = 0
              /\ \A i \in 1..Len(merged_csv) : merged_csv[i] # data_row(d)
              /\ task[d].pc = "skipped" <=> tally[d] = "skipped"
              /\ pdf_index > d => tally[d] = "skipped"
              /\ batch_pc = "done" => tally[d] = "skipped"
    /\ (\A d \in Docs : file_hash[d] \in progress_at_start) =>
          /\ \A i \in 1..Len(merged_csv) : merged_csv[i].kind # "data"
          /\ batch_pc = "done" => counts.skipped = NumDocs

\* A batch that has ended, with a completed document skipped and another
\* document processed into the merged file.
C13_Witness ==
    /\ batch_pc = "done"
    /\ \E d, e \in Docs :
          /\ file_hash[d] \in progress_at_start /\ tally[d] = "skipped"
          /\ tally[e] = "processed"
          /\ \E i \in 1..Len(merged_csv) : merged_csv[i] = data_row(e)

\* The data lines of the merged file that were written for path d.
RowsOf(d) == {i \in 1..Len(merged_csv) : merged_csv[i] = data_row(d)}

\* C14: a document whose processing returned True has exactly one data line
\* in the merged file, whatever text the LLM returned and however the write
\* went.
C14_OneRowPerProcessed ==
    \A d \in Docs :
        (task[d].pc \in {"returned", "tallied"} /\ task[d].success)
            => Cardinality(RowsOf(d)) = 1

\* C16: a document whose processing returned False has no data line in the
\* merged file.
C16_FailedLeavesNoRow ==
    \A d \in Docs :
        (task[d].pc \in {"returned", "tallied"} /\ ~task[d].success)
            => RowsOf(d) = {}

(***************************************************************************)
(* enhance_paper_with_local_info and PaperInfoExtractor.extract_paper_info *)
(* for one document.  The first page and the path are described by what    *)
(* the extractors look for in them:                                        *)
(*   title: what _extract_title returns ("" when it finds none);           *)
(*   title_line: a line of the first page shares more than half of the     *)
(*     title's words; author_lines: a likely author line follows it;       *)
(*   names: what _extract_author_names makes of the author lines;          *)
(*   text_year, path_year: a year in range occurs in the text, the path.   *)
(***************************************************************************)
\* The sentinel the extractors return, '未提及' ("not mentioned").
NotMentioned == "not_mentioned"

InfoInputs ==
    [title : {"", "Extracted Title"}, title_line : BOOLEAN, author_lines : BOOLEAN,
     names : {"A. Author", NotMentioned}, text_year : BOOLEAN, path_year : BOOLEAN]

\* len(paper.title) for the titles of the model.
TitleLen(t) == CASE t = "" -> 0 [] t = "Short" -> 5 [] OTHER -> 15

MinTitleLen == 10

\* _extract_authors(first_page_text, title)
extract_authors(in, title) ==
    IF title = "" THEN NotMentioned
    ELSE IF ~in.title_line THEN NotMentioned
    ELSE IF in.author_lines THEN in.names
    ELSE NotMentioned

\* _extract_year(first_page_text, pdf_path): the path's year is preferred.
extract_year(in) ==
    IF in.path_year THEN "2021"
    ELSE IF in.text_year THEN "2019"
    ELSE NotMentioned

InitInfo ==
    /\ paper_title \in {"", "Short", "A Title of Paper"}
    /\ info_input \in InfoInputs
    /\ paper_info = <<>>
    /\ enhanced_info = <<>>
    /\ info_pc = "start"
    /\ TruncIdle
    /\ IndexIdle
    /\ BatchIdle
    /\ FieldIdle
    /\ CallIdle
    /\ TitleIdle

\* extract_paper_info: the PDF is opened, every extractor returns, the PDF is
\* closed.
ExtractPaperInfo ==
    /\ info_pc = "start"
    /\ paper_info' = [title |-> info_input.title,
                      authors |-> extract_authors(info_input, info_input.title),
                      year |-> extract_year(info_input)]
    /\ info_pc' = "extracted"
    /\ UNCHANGED <<paper_title, info_input, enhanced_info, infoRest>>

\* extract_paper_info: fitz.open, pdf[0].get_text() or an extractor raises;
\* the except clause returns PaperInfo("", "", "", "", [], "", "", None).
ExtractPaperInfoCaught ==
    /\ info_pc = "start"
    /\ paper_info' = [title |-> "", authors |-> "", year |-> ""]
    /\ info_pc' = "extracted"
    /\ UNCHANGED <<paper_title, info_input, enhanced_info, infoRest>>

\* enhance_paper_with_local_info after extract_paper_info returned: a missing
\* or short paper.title is replaced, and the result dict is built from the
\* PaperInfo.
EnhanceReturn ==
    /\ info_pc = "extracted"
    /\ paper_title' = IF paper_title = "" \/ TitleLen(paper_title) < MinTitleLen
                      THEN paper_info.title ELSE paper_title
    /\ enhanced_info' = [extracted_title |-> paper_info.title,
                         extracted_authors |-> paper_info.authors,
                         extracted_year |-> paper_info.year]
    /\ info_pc' = "done"
    /\ UNCHANGED <<info_input, paper_info, infoRest>>

NextInfo == ExtractPaperInfo \/ ExtractPaperInfoCaught \/ EnhanceReturn

SpecInfo == InitInfo /\ [][NextInfo]_vars

\* C15: the authors and the year that enhance_paper_with_local_info hands on
\* are what was extracted or the sentinel, never the empty string.
C15_SentinelNotEmpty ==
    info_pc = "done" =>
        /\ enhanced_info.extracted_authors # ""
        /\ enhanced_info.extracted_year # ""

(***************************************************************************)
(* Paper.get_title.  A page is the sequence of the runs get_title looks    *)
(* at: the first span of the first line of each text block, with its text  *)
(* and its font size.  Font sizes are counted in tenths of a point, so the *)
(* 0.3 of the code is 3.                                                   *)
(***************************************************************************)
FontSizes == {100, 120, 138, 140}

\* A title line, a run of at most 4 characters, a preprint banner.
RunTexts == {"A Long Run", "abc", "arXiv:2101.00001"}

RunLen(t) == CASE t = "abc" -> 3 [] t = "A Long Run" -> 10 [] OTHER -> 16

\* "arXiv" in cur_string
HasArxiv(t) == t = "arXiv:2101.00001"

Tolerance == 3

MinRunLen == 4

\* Documents have 1..MaxTitlePages pages of at most MaxRuns text blocks.
MaxTitlePages == 2

MaxRuns == 2

RunChoices == [text : RunTexts, size : FontSizes]

TitlePageChoices == UNION {[1..k -> RunChoices] : k \in 0..MaxRuns}

Abs(x) == IF x < 0 THEN -x ELSE x

\* s[-k]
FromEnd(s, k) == s[Len(s) + 1 - k]

\* The font sizes of all runs, in document order.
RECURSIVE SizesFrom(_, _)
SizesFrom(doc, p) ==
    IF p > Len(doc) THEN <<>>
    ELSE [i \in 1..Len(doc[p]) |-> doc[p][i].size] \o SizesFrom(doc, p + 1)

\* The first pass: max_font_sizes = [0] plus every size, then sort().
collect_sizes(doc) == SortSeq(<<0>> \o SizesFrom(doc, 1), LAMBDA a, b : a < b)

\* abs(font_size - max_font_sizes[-1]) < 0.3 or abs(font_size - max_font_sizes[-2]) < 0.3
title_sized(size, sizes) ==
    \/ Abs(size - FromEnd(sizes, 1)) < Tolerance
    \/ Abs(size - FromEnd(sizes, 2)) < Tolerance

\* len(cur_string) > 4 and "arXiv" not in cur_string
title_text(t) == RunLen(t) > MinRunLen /\ ~HasArxiv(t)

\* The second pass over the blocks of one page; acc holds cur_title and
\* title_page.
RECURSIVE ScanRuns(_, _, _, _, _)
ScanRuns(acc, runs, pidx, sizes, i) ==
    IF i > Len(runs) THEN acc
    ELSE LET run == runs[i]
             next == IF title_sized(run.size, sizes)
                     THEN [cur_title |-> IF title_text(run.text)
                                         THEN Append(acc.cur_title, run.text)
                                         ELSE acc.cur_title,
                           title_page |-> pidx]
                     ELSE acc
         IN  ScanRuns(next, runs, pidx, sizes, i + 1)

InitTitle ==
    /\ \E n \in 1..MaxTitlePages : title_doc \in [1..n -> TitlePageChoices]
    /\ max_font_sizes = <<>>
    /\ cur_title = <<>>
    /\ title_page = 0
    /\ title_scan = 0
    /\ title_pc = "sizes"
    /\ TruncIdle
    /\ IndexIdle
    /\ BatchIdle
    /\ InfoIdle
    /\ FieldIdle
    /\ CallIdle

\* The first loop over the pages, and the sort.
CollectSizes ==
    /\ title_pc = "sizes"
    /\ max_font_sizes' = collect_sizes(title_doc)
    /\ title_pc' = "scan"
    /\ UNCHANGED <<title_doc, cur_title, title_page, title_scan, titleRest>>

\* One page of the second loop.
ScanTitlePage ==
    /\ title_pc = "scan"
    /\ title_scan < Len(title_doc)
    /\ LET r == ScanRuns([cur_title |-> cur_title, title_page |-> title_page],
                         title_doc[title_scan + 1], title_scan, max_font_sizes, 1)
       IN  /\ cur_title' = r.cur_title
           /\ title_page' = r.title_page
    /\ title_scan' = title_scan + 1
    /\ UNCHANGED <<title_doc, max_font_sizes, title_pc, titleRest>>

\* The second loop is over: the title is returned.
ReturnTitle ==
    /\ title_pc = "scan"
    /\ title_scan = Len(title_doc)
    /\ title_pc' = "done"
    /\ UNCHANGED <<title_doc, max_font_sizes, cur_title, title_page, title_scan,
                   titleRest>>

NextTitle == CollectSizes \/ ScanTitlePage \/ ReturnTitle

SpecTitle == InitTitle /\ [][NextTitle]_vars

\* The pages (0-based) with a run that has a title-sized font, more than 4
\* characters and no 'arXiv'.
QualifyingPages ==
    {p \in 0..(Len(title_doc) - 1) :
        \E i \in 1..Len(title_doc[p + 1]) :
            /\ title_sized(title_doc[p + 1][i].size, max_font_sizes)
            /\ title_text(title_doc[p + 1][i].text)}

\* C18: after get_title, title_page is the page of the last run that has a
\* title-sized font, more than 4 characters and no 'arXiv'; without such a
\* run title_page keeps its initial value 0.
C18_TitlePageOfLastFragment ==
    title_pc = "done" =>
        title_page = IF QualifyingPages = {} THEN 0
                     ELSE CHOOSE p \in QualifyingPages : \A q \in QualifyingPages : q <= p

\* The distinct font sizes of the document.
DistinctSizes ==
    {x \in FontSizes : \E p \in 1..Len(title_doc) :
                          \E i \in 1..Len(title_doc[p]) : title_doc[p][i].size = x}

SetMax(S) == CHOOSE x \in S : \A y \in S : y <= x

\* Within 0.3 of the largest, or of the second largest distinct, font size.
NearTopSizes(x) ==
    LET S == DistinctSizes
    IN  /\ S # {}
        /\ \/ Abs(x - SetMax(S)) < Tolerance
           \/ S \ {SetMax(S)} # {} /\ Abs(x - SetMax(S \ {SetMax(S)})) < Tolerance

SelectedRun(run) == NearTopSizes(run.size) /\ title_text(run.text)

\* The texts of the selected runs of page p onward, in document order.
RECURSIVE SelectedFrom(_)
SelectedFrom(p) ==
    IF p > Len(title_doc) THEN <<>>
    ELSE LET runs == SelectSeq(title_doc[p], SelectedRun)
         IN  [i \in 1..Len(runs) |-> runs[i].text] \o SelectedFrom(p + 1)

\* C19: the title is made of exactly the runs whose font size is within 0.3
\* of the largest or of the second largest distinct font size of the
\* document and whose text has more than 4 characters and no 'arXiv'.
C19_TwoLargestDistinctSizes ==
    title_pc = "done" => cur_title = SelectedFrom(1)


(***************************************************************************)
(* Paper.parse_pdf after the page index: _get_all_page and get_paper_info. *)
(* A text is a sequence of [line, sep]: a line of the page and the         *)
(* character that ends it, '\n' in what get_text() returns.  Positions are *)
(* counted in lines: the pages of SpecPaper carry a section name only as a *)
(* whole heading line, so every position find() returns is a line start.   *)
(***************************************************************************)
\* page.get_text()
get_text(page) == [i \in 1..Len(page) |-> [line |-> page[i], sep |-> "\n"]]

\* text.find(name), or text.find(name.upper()) when upper: the 0-based position
\* of the first occurrence, -1 when there is none.
find(txt, name, upper) ==
    LET hits == {i \in 1..Len(txt) : /\ txt[i].line.kind = "heading"
                                     /\ txt[i].line.name = name
                                     /\ txt[i].line.upper = upper}
    IN  IF hits = {} THEN 0 - 1 ELSE SetMin(hits) - 1

\* The position the code slices at: that of name, and that of name.upper() when
\* name itself does not occur.
find_either(txt, name) ==
    IF find(txt, name, FALSE) = 0 - 1 THEN find(txt, name, TRUE)
    ELSE find(txt, name, FALSE)

\* s[i:j]
Slice(s, i, j) == SliceFrom(SliceTo(s, j), IF i < 0 THEN Max(Len(s) + i, 0) ELSE i)

\* .replace('\n', ' '): every line end becomes a space.
flatten(txt) == [i \in 1..Len(txt) |-> [line |-> txt[i].line, sep |-> " "]]

\* The loop "for page_i in range(start_page, end_page)" from page_i on.
RECURSIVE section_pages(_, _, _, _, _, _)
section_pages(text_list, d, sec_index, start_page, end_page, page_i) ==
    IF page_i >= end_page THEN <<>>
    ELSE (IF page_i = start_page
          THEN SliceFrom(text_list[page_i + 1],
                         find_either(text_list[start_page + 1], d[sec_index].key))
          ELSE IF page_i < end_page
          THEN text_list[page_i + 1]
          ELSE IF page_i = end_page /\ sec_index < Len(d)
          THEN SliceTo(text_list[page_i + 1],
                       find_either(text_list[start_page + 1], d[sec_index + 1].key))
          ELSE <<>>)
         \o section_pages(text_list, d, sec_index, start_page, end_page, page_i + 1)

\* end_page of the entry sec_index (1-based here): the page of the next entry,
\* len(text_list) for the last one.
end_page_of(text_list, d, sec_index) ==
    IF sec_index < Len(d) THEN d[sec_index + 1].page ELSE Len(text_list)

\* cur_sec_text of one entry, before the final replace.
cur_sec_text(text_list, d, sec_index) ==
    LET start_page == d[sec_index].page
        end_page == end_page_of(text_list, d, sec_index)
    IN  IF end_page - start_page = 0
        THEN IF sec_index < Len(d)
             THEN Slice(text_list[start_page + 1],
                        find_either(text_list[start_page + 1], d[sec_index].key),
                        find_either(text_list[start_page + 1], d[sec_index + 1].key))
             ELSE <<>>
        ELSE section_pages(text_list, d, sec_index, start_page, end_page, start_page)

\* _get_all_page(): one entry per entry of section_page_dict, in its order.
get_all_page(text_list, d) ==
    [k \in 1..Len(d) |->
        [key |-> d[k].key, text |-> flatten(cur_sec_text(text_list, d, k))]]

\* s.replace(old, ""): every occurrence of old goes, left to right; an empty old
\* leaves s as it is.
RECURSIVE replace(_, _)
replace(s, old) ==
    IF old = <<>> \/ Len(s) < Len(old) THEN s
    ELSE IF SubSeq(s, 1, Len(old)) = old
         THEN replace(SubSeq(s, Len(old) + 1, Len(s)), old)
         ELSE <<s[1]>> \o replace(Tail(s), old)

TextDictHas(d, k) == \E i \in 1..Len(d) : d[i].key = k

TextDictGet(d, k) == d[CHOOSE i \in 1..Len(d) : d[i].key = k].text

\* abstract_text of get_paper_info
abstract_text ==
    IF TextDictHas(section_text_dict, "Abstract")
    THEN TextDictGet(section_text_dict, "Abstract")
    ELSE <<>>

PaperLineChoices ==
    { Heading("Abstract", FALSE), Heading("Introduction", FALSE),
      Heading("Introduction", TRUE), [kind |-> "body", mentions |-> "none"] }

PaperPageChoices == UNION {[1..n -> PaperLineChoices] : n \in 0..MaxLines}

\* parse_pdf starts after __init__ has the title: title_page is 0, or the page
\* get_title stored, any page of the document.
InitPaper ==
    /\ \E n \in 1..MaxPages : pdf_pages \in [1..n -> PaperPageChoices]
    /\ page_index = 0
    /\ section_page_dict = <<>>
    /\ index_pc = "scanning"
    /\ section_text_dict = <<>>
    /\ paper_info_text = <<>>
    /\ title_page \in 0..(Len(pdf_pages) - 1)
    /\ title_doc = <<>>
    /\ max_font_sizes = <<>>
    /\ cur_title = <<>>
    /\ title_scan = 0
    /\ title_pc = "done"
    /\ TruncIdle
    /\ BatchIdle
    /\ InfoIdle
    /\ FieldIdle
    /\ CallIdle

\* self.section_text_dict = self._get_all_page()
GetAllPage ==
    /\ index_pc = "done"
    /\ section_text_dict' =
           get_all_page([p \in 1..Len(pdf_pages) |-> get_text(pdf_pages[p])],
                        section_page_dict)
    /\ index_pc' = "sections"
    /\ UNCHANGED <<pdf_pages, page_index, section_page_dict, paper_info_text, indexRest>>

\* self.section_text_dict.update({"paper_info": self.get_paper_info()})
GetPaperInfo ==
    /\ index_pc = "sections"
    /\ paper_info_text' = replace(get_text(pdf_pages[title_page + 1]), abstract_text)
    /\ index_pc' = "parsed"
    /\ UNCHANGED <<pdf_pages, page_index, section_page_dict, section_text_dict, indexRest>>

NextPaper == ScanPage \/ ReturnIndex \/ GetAllPage \/ GetPaperInfo

SpecPaper == InitPaper /\ [][NextPaper]_vars

(***************************************************************************)
(* Claims about Paper._get_all_page and Paper.get_paper_info, checked      *)
(* under SpecPaper.                                                        *)
(***************************************************************************)
\* The pages a..b (0-based) of the document, whole, one after the other.
RECURSIVE WholePages(_, _)
WholePages(a, b) ==
    IF a > b THEN <<>>
    ELSE get_text(pdf_pages[a + 1]) \o WholePages(a + 1, b)

\* The text of an entry that spans pages, made of the three parts: the start
\* page from the heading on, the whole pages between, the end page before the
\* heading of the next entry.
ThreeParts(k) ==
    LET start_page == section_page_dict[k].page
        end_page == section_page_dict[k + 1].page
        first == get_text(pdf_pages[start_page + 1])
        last == get_text(pdf_pages[end_page + 1])
    IN  flatten(SliceFrom(first, find_either(first, section_page_dict[k].key))
                \o WholePages(start_page + 1, end_page - 1)
                \o SliceTo(last, find_either(last, section_page_dict[k + 1].key)))

\* C17: the text of an entry whose start page is before its end page, and that
\* has a following entry, is the start page from the heading on, the whole
\* pages between, and the end page before the next heading.
C17_EndPagePartIncluded ==
    index_pc \in {"sections", "parsed"} =>
        \A k \in 1..(Len(section_page_dict) - 1) :
            section_page_dict[k].page < section_page_dict[k + 1].page
                => section_text_dict[k].text = ThreeParts(k)

\* s with its first occurrence of old taken out.
RECURSIVE remove_once(_, _)
remove_once(s, old) ==
    IF old = <<>> \/ Len(s) < Len(old) THEN s
    ELSE IF SubSeq(s, 1, Len(old)) = old
         THEN SubSeq(s, Len(old) + 1, Len(s))
         ELSE <<s[1]>> \o remove_once(Tail(s), old)

\* C20: whatever title_page is, paper_info is the raw text of page 0 with one
\* occurrence of the assembled Abstract text removed, and the raw text of page
\* 0 itself when there is no Abstract entry.
C20_PaperInfoFromPageZero ==
    index_pc = "parsed" =>
        paper_info_text = remove_once(get_text(pdf_pages[1]), abstract_text)


(***************************************************************************)
(* The retry loop of process_single_paper (call_mode "sequential") and of  *)
(* process_single_paper_thread_safe ("parallel") around                    *)
(* chat_conclusion_with_local_info, for the documents 1..Len(caller) of a  *)
(* batch.  The statements of chat_conclusion_with_local_info that touch    *)
(* Reader.cur_api are steps of their own: the threads of the pool share    *)
(* the Reader and no lock is held there.  A caller's state is              *)
(*   pc: "queued" | "select" | "inc_load" | "inc_store" | "wrap_test" |    *)
(*       "wrap_load" | "wrap_store" | "llm" | "sleep" | "done";            *)
(*   retry_count; tmp: the value a statement has loaded and not yet        *)
(*   stored; waits: the seconds of the time.sleep calls so far; attempts:  *)
(*   how many of the waits had been made when each attempt started.        *)
(***************************************************************************)
\* A batch has at most NumCallers documents, a pool at most MaxKeys keys.
NumCallers == 2

MaxKeys == 3

NewCaller == [pc |-> "queued", retry_count |-> 0, tmp |-> 0, waits |-> <<>>,
              attempts |-> <<>>]

InitCalls ==
    /\ call_mode \in {"sequential", "parallel"}
    /\ \E n \in 1..MaxKeys : chat_api_list = [i \in 1..n |-> i - 1]
    /\ cur_api = 0
    /\ selected = <<>>
    /\ \E n \in 1..NumCallers : caller = [c \in 1..n |-> NewCaller]
    /\ TruncIdle
    /\ IndexIdle
    /\ BatchIdle
    /\ InfoIdle
    /\ FieldIdle
    /\ TitleIdle

CallFrame == UNCHANGED <<callRest, call_mode, chat_api_list>>

\* The loop of summary_with_chat takes the next document when the one before
\* has returned; the pool of summary_with_chat_parallel runs the documents
\* side by side.
MayStart(c) ==
    call_mode = "sequential" => \A b \in 1..(c - 1) : caller[b].pc = "done"

\* The retry loop is entered: while retry_count < max_retries, first pass.
StartCaller(c) ==
    /\ caller[c].pc = "queued"
    /\ MayStart(c)
    /\ caller' = [caller EXCEPT ![c].pc = "select",
                                ![c].attempts = Append(@, Len(caller[c].waits))]
    /\ CallFrame
    /\ UNCHANGED <<cur_api, selected>>

\* What time.sleep is given after the failure that made retry_count k.
backoff(k) == 2 ^ k

\* The except clause of the retry loop, after retry_count += 1 made it n.
\* Only the thread-safe variant sleeps, and only while attempts are left.
AfterRaise(t, n) ==
    IF n >= max_retries THEN [t EXCEPT !.retry_count = n, !.pc = "done"]
    ELSE IF call_mode = "parallel" THEN [t EXCEPT !.retry_count = n, !.pc = "sleep"]
    ELSE [t EXCEPT !.retry_count = n, !.pc = "select",
                   !.attempts = Append(@, Len(t.waits))]

\* openai.api_key = self.chat_api_list[self.cur_api]
SelectKey(c) ==
    /\ caller[c].pc = "select"
    /\ cur_api < Len(chat_api_list)
    /\ selected' = Append(selected, chat_api_list[cur_api + 1])
    /\ caller' = [caller EXCEPT ![c].pc = "inc_load"]
    /\ CallFrame
    /\ UNCHANGED cur_api

\* The same statement with cur_api past the end: IndexError, which the except
\* clause of the retry loop catches.
SelectKeyRaise(c) ==
    /\ caller[c].pc = "select"
    /\ cur_api >= Len(chat_api_list)
    /\ caller' = [caller EXCEPT ![c] = AfterRaise(@, @.retry_count + 1)]
    /\ CallFrame
    /\ UNCHANGED <<cur_api, selected>>

\* self.cur_api += 1: the value is loaded, ...
IncLoad(c) ==
    /\ caller[c].pc = "inc_load"
    /\ caller' = [caller EXCEPT ![c].tmp = cur_api, ![c].pc = "inc_store"]
    /\ CallFrame
    /\ UNCHANGED <<cur_api, selected>>

\* ... and the sum is stored.
IncStore(c) ==
    /\ caller[c].pc = "inc_store"
    /\ cur_api' = caller[c].tmp + 1
    /\ caller' = [caller EXCEPT ![c].tmp = 0, ![c].pc = "wrap_test"]
    /\ CallFrame
    /\ UNCHANGED selected

\* The test of the wrap-around.
wraps(i) == i >= Len(chat_api_list) - 1

\* self.cur_api = 0 if self.cur_api >= len(self.chat_api_list) - 1 else
\* self.cur_api: the condition is evaluated, ...
WrapTest(c) ==
    /\ caller[c].pc = "wrap_test"
    /\ caller' = [caller EXCEPT ![c].pc = IF wraps(cur_api) THEN "wrap_store"
                                          ELSE "wrap_load"]
    /\ CallFrame
    /\ UNCHANGED <<cur_api, selected>>

\* ... the else value is loaded, ...
WrapLoad(c) ==
    /\ caller[c].pc = "wrap_load"
    /\ caller' = [caller EXCEPT ![c].tmp = cur_api, ![c].pc = "wrap_store"]
    /\ CallFrame
    /\ UNCHANGED <<cur_api, selected>>

\* ... and the value is stored.
WrapStore(c) ==
    /\ caller[c].pc = "wrap_store"
    /\ cur_api' = caller[c].tmp
    /\ caller' = [caller EXCEPT ![c].tmp = 0, ![c].pc = "llm"]
    /\ CallFrame
    /\ UNCHANGED selected

\* The rest of chat_conclusion_with_local_info returns the answer: break.
LlmOk(c) ==
    /\ caller[c].pc = "llm"
    /\ caller' = [caller EXCEPT ![c].pc = "done"]
    /\ CallFrame
    /\ UNCHANGED <<cur_api, selected>>

\* The rest of chat_conclusion_with_local_info raises.
LlmRaise(c) ==
    /\ caller[c].pc = "llm"
    /\ caller' = [caller EXCEPT ![c] = AfterRaise(@, @.retry_count + 1)]
    /\ CallFrame
    /\ UNCHANGED <<cur_api, selected>>

\* time.sleep(2 ** retry_count), then the next pass of the loop.
Sleep(c) ==
    /\ caller[c].pc = "sleep"
    /\ caller' = [caller EXCEPT
                    ![c].waits = Append(@, backoff(caller[c].retry_count)),
                    ![c].pc = "select",
                    ![c].attempts = Append(@, Len(caller[c].waits) + 1)]
    /\ CallFrame
    /\ UNCHANGED <<cur_api, selected>>

NextCalls ==
    \E c \in 1..Len(caller) :
        \/ StartCaller(c)
        \/ SelectKey(c)
        \/ SelectKeyRaise(c)
        \/ IncLoad(c)
        \/ IncStore(c)
        \/ WrapTest(c)
        \/ WrapLoad(c)
        \/ WrapStore(c)
        \/ LlmOk(c)
        \/ LlmRaise(c)
        \/ Sleep(c)

SpecCalls == InitCalls /\ [][NextCalls]_vars

(***************************************************************************)
(* Claims about the retry loops and the key rotation, checked under        *)
(* SpecCalls.                                                              *)
(***************************************************************************)
\* C21: in both variants, attempt k+1 (k = 1, 2) starts after a wait of 2^k
\* seconds that followed the k-th failure, and no wait follows the last
\* failed attempt.
C21_BackoffBetweenAttempts ==
    \A c \in 1..Len(caller) :
        /\ \A k \in 1..(Len(caller[c].attempts) - 1) :
              /\ caller[c].attempts[k + 1] = k
              /\ caller[c].waits[k] = backoff(k)
        /\ Len(caller[c].waits) < max_retries


\* C22: with a pool of n >= 2 keys, any n consecutive calls that run one
\* after the other select every key of the pool, the last one included.
C22_RoundRobinOverPool ==
    (call_mode = "sequential" /\ Len(chat_api_list) >= 2) =>
        \A i \in 1..(Len(selected) - Len(chat_api_list) + 1) :
            \A k \in 1..Len(chat_api_list) :
                \E j \in i..(i + Len(chat_api_list) - 1) : selected[j] = chat_api_list[k]

\* C27: whenever a thread is about to read chat_api_list[cur_api], cur_api is
\* an index of the list.
C27_IndexValidWhenRead ==
    \A c \in 1..Len(caller) :
        caller[c].pc = "select" => (0 <= cur_api /\ cur_api < Len(chat_api_list))


(***************************************************************************)
(* Further claims about TokenManager._truncate_sections_priority, checked  *)
(* under SpecTrunc.                                                        *)
(***************************************************************************)
\* The first priority segment, from position i on and with `used` tokens
\* taken by the segments before it, that does not fit max_tokens:
\* [index, remaining], index 0 when every segment fits.
RECURSIVE FirstOverflow(_, _, _, _)
FirstOverflow(sections, i, used, max_tokens) ==
    IF i > Len(priority_keys) THEN [index |-> 0, remaining |-> max_tokens - used]
    ELSE IF ~DictHas(sections, priority_keys[i])
    THEN FirstOverflow(sections, i + 1, used, max_tokens)
    ELSE IF used + count_tokens(DictGet(sections, priority_keys[i])) <= max_tokens
    THEN FirstOverflow(sections, i + 1,
                       used + count_tokens(DictGet(sections, priority_keys[i])),
                       max_tokens)
    ELSE [index |-> i, remaining |-> max_tokens - used]

\* The symbol c occurs in t.
Occurs(t, c) == \E i \in 1..Len(t) : t[i] = c

\* What C23 says of the overflowing segment when `least` tokens or more must
\* remain for it to be truncated.
OverflowRule(least) ==
    LET sections == split_sections(text)
        o == FirstOverflow(sections, 1, 0, usable_budget)
        content == DictGet(sections, priority_keys[o.index])
    IN  (/\ outcome = "returned"
         /\ strategy = "sections"
         /\ OverBudget
         /\ o.index > 0)
        => /\ IF o.remaining >= least
              THEN /\ Contains(returned, truncate_front(content, o.remaining))
                   /\ Occurs(returned, "d")
              ELSE /\ ~Occurs(returned, priority_sections[o.index])
                   /\ ~Occurs(returned, "d")
           /\ \A j \in (o.index + 1)..Len(priority_sections) :
                  ~Occurs(returned, priority_sections[j])

\* C23: the first priority segment that does not fit is front-truncated to the
\* remaining budget and appended with the elision marker when 100 tokens or
\* more remain, exactly 100 included; nothing of it is appended when fewer
\* remain; no later priority segment is appended.
C23_TruncatesAtHundred == OverflowRule(MinKeepTokens)


\* The non-blank lines of t.
NonBlankLines(t) == SelectSeq(SplitLines(t), LAMBDA l : Strip(l) # <<>>)

\* How often the line l is among the lines ls.
LineCount(ls, l) == Cardinality({i \in 1..Len(ls) : ls[i] = l})

\* How often the line l is among the lines of the segments d[1..n].
RECURSIVE StoredCount(_, _, _)
StoredCount(d, n, l) ==
    IF n = 0 THEN 0
    ELSE LineCount(NonBlankLines(d[n].content), l) + StoredCount(d, n - 1, l)

\* C28: after the splitting phase every non-blank line of the input is in
\* exactly one stored segment, also when a label starts more than one line.
C28_NoLineLost ==
    (outcome = "returned" /\ strategy = "sections" /\ OverBudget) =>
        LET sections == split_sections(text)
            lines == NonBlankLines(text)
        IN  \A i \in 1..Len(lines) :
                StoredCount(sections, Len(sections), lines[i]) = LineCount(lines, lines[i])


(***************************************************************************)
(* process_single_paper writes a detected section as the line              *)
(* f'{section_name}: {section_content}'; the label symbol that line starts *)
(* with is the name followed by its colon.                                 *)
(***************************************************************************)
section_label(section_name) ==
    CASE section_name = "Abstract" -> "Abstract:"
      [] section_name = "Introduction" -> "Introduction:"
      [] section_name = "Related Work" -> "Related Work:"
      [] section_name = "Background" -> "Background:"
      [] section_name = "Preliminary" -> "Preliminary:"
      [] section_name = "Problem Formulation" -> "Problem Formulation:"
      [] section_name = "Methods" -> "Methods:"
      [] section_name = "Methodology" -> "Methodology:"
      [] section_name = "Method" -> "Method:"
      [] section_name = "Approach" -> "Approach:"
      [] section_name = "Approaches" -> "Approaches:"
      [] section_name = "Materials and Methods" -> "Materials and Methods:"
      [] section_name = "Experiment Settings" -> "Experiment Settings:"
      [] section_name = "Experiment" -> "Experiment:"
      [] section_name = "Experimental Results" -> "Experimental Results:"
      [] section_name = "Evaluation" -> "Evaluation:"
      [] section_name = "Experiments" -> "Experiments:"
      [] section_name = "Results" -> "Results:"
      [] section_name = "Findings" -> "Findings:"
      [] section_name = "Data Analysis" -> "Data Analysis:"
      [] section_name = "Discussion" -> "Discussion:"
      [] section_name = "Results and Discussion" -> "Results and Discussion:"
      [] section_name = "Conclusion" -> "Conclusion:"
      [] section_name = "References" -> "References:"

\* C29: the line built for every section name that _get_all_page_index has
\* recorded starts a segment of its own in _truncate_sections_priority: its
\* label is one of priority_sections.
C29_RecordedSectionsAreLabels ==
    index_pc = "done" =>
        \A i \in 1..Len(section_page_dict) :
            LabelIndex(<<section_label(section_page_dict[i].key), "w">>) > 0


(***************************************************************************)
(* A further claim about the batch, checked under SpecBatch.               *)
(***************************************************************************)
\* C30: in a batch that has ended, sequential or parallel, a path whose file
\* has the bytes of an earlier path that was processed with success was
\* skipped as already processed and has no data line in the merged file.
C30_SameContentOnce ==
    batch_pc = "done" =>
        \A d, e \in Docs :
            (d < e /\ file_hash[d] = file_hash[e] /\ tally[d] = "processed")
                => (tally[e] = "skipped" /\ RowsOf(e) = {})


(***************************************************************************)
(* PaperInfoExtractor: _extract_year, _is_valid_venue and _extract_arxiv_id *)
(* as functions of what they are given, one call per behaviour.            *)
(*                                                                         *)
(* _extract_year: the path and the first-page text are described by the    *)
(* runs of exactly four digits in them, in order of occurrence, each the   *)
(* number it spells.                                                       *)
(***************************************************************************)
\* The four-digit runs a path or a text is made of.
YearTokens == {1989, 1990, 1995, 2019, 2026}

\* datetime.datetime.now().year
CurrentYears == {2024, 2025}

\* A path, and a text, holds at most MaxYears four-digit runs.
MaxYears == 2

YearRuns == UNION {[1..n -> YearTokens] : n \in 0..MaxYears}

\* re.findall(r'(20\d{2})', pdf_path): the runs that start with "20".
century_runs(runs) == SelectSeq(runs, LAMBDA y : 2000 <= y /\ y <= 2099)

\* The loop over self.year_patterns: r'(\d{4})' finds every run, r'20[12]\d'
\* finds those of 2010..2029 once more.
pattern_runs(runs) ==
    runs \o SelectSeq(runs, LAMBDA y : 2010 <= y /\ y <= 2029)

\* The matches that pass "1990 <= year <= current_year + 1".
years_in_range(runs, current_year) ==
    SelectSeq(runs, LAMBDA y : 1990 <= y /\ y <= current_year + 1)

\* max(years)
max_year(years) ==
    CHOOSE y \in {years[i] : i \in 1..Len(years)} :
        \A i \in 1..Len(years) : years[i] <= y

\* _extract_year(first_page_text, pdf_path)
year_of(in) ==
    LET path_years == years_in_range(century_runs(in.path), in.current_year)
        text_years == years_in_range(pattern_runs(in.text), in.current_year)
    IN  IF path_years # <<>> THEN [kind |-> "year", value |-> max_year(path_years)]
        ELSE IF text_years # <<>> THEN [kind |-> "year", value |-> max_year(text_years)]
        ELSE [kind |-> "sentinel", value |-> 0]

YearInputs ==
    [current_year : CurrentYears, path : YearRuns, text : YearRuns]

\* year = self._extract_year(first_page_text, pdf_path)
ExtractYear ==
    /\ field = "year"
    /\ field_pc = "start"
    /\ field_output' = year_of(field_input)
    /\ field_pc' = "done"
    /\ UNCHANGED <<field, field_input, fieldRest>>


(***************************************************************************)
(* _is_valid_venue.  A venue candidate is described by its text and by the *)
(* answers of the tests the function makes on it:                          *)
(*   len: len(venue); digits: venue.isdigit(); upper: venue.isupper();     *)
(*   tagged: re.match(r'^[A-Z][a-z]+\d+[*†‡]*$', venue);                   *)
(*   name_pair: re.search(r'\b[A-Z][a-z]+\s+[A-Z][a-z]+\b', venue);        *)
(*   name_number: re.search(r'\b[A-Z][a-z]+\d+\b', venue);                 *)
(*   keyword: a word of valid_keywords is in venue.lower();                *)
(*   context: 'nature', 'science' or 'cell' is in venue.lower();           *)
(*   context_word: 'communications', 'robotics', 'advances' or 'machine'   *)
(*     is in venue.lower().                                                *)
(***************************************************************************)
Venue(t, n, flags) ==
    [text |-> t, len |-> n,
     digits |-> "digits" \in flags, upper |-> "upper" \in flags,
     tagged |-> "tagged" \in flags, name_pair |-> "name_pair" \in flags,
     name_number |-> "name_number" \in flags, keyword |-> "keyword" \in flags,
     context |-> "context" \in flags, context_word |-> "context_word" \in flags]

VenueChoices ==
    { Venue("Ding12", 6, {"tagged", "name_number"}),
      Venue("2023", 4, {"digits"}),
      Venue("John Smith", 10, {"name_pair"}),
      Venue("Smith1 Workshop", 15, {"name_number", "keyword"}),
      Venue("International Conference on Machine Learning", 44,
            {"name_pair", "keyword", "context_word"}),
      Venue("Conference on Robot Learning", 28, {"name_pair", "keyword"}),
      Venue("Neural Information Processing Systems", 37, {"name_pair"}),
      Venue("Nature Communications", 21, {"name_pair", "context", "context_word"}),
      Venue("Proceedings of the IEEE", 23, {"keyword"}),
      Venue("ICML 2023", 9, {"keyword", "upper"}),
      Venue("arXiv preprint", 14, {"keyword"}),
      Venue("Nature", 6, {"context"}),
      Venue("NATURE ROBOTICS", 15, {"context", "context_word", "upper"}),
      Venue("WXYZ", 4, {"upper"}),
      Venue("Tech report", 11, {}) }

\* The shortest venue the first test lets pass, the length from which a
\* context word needs no helper word, the shortest all-capitals name taken.
MinVenueLen == 3

ContextLen == 10

MinAcronymLen == 4

\* _is_valid_venue(venue)
is_valid_venue(v) ==
    IF v.tagged THEN FALSE
    ELSE IF v.digits \/ v.len < MinVenueLen THEN FALSE
    ELSE IF v.name_pair \/ v.name_number THEN FALSE
    ELSE IF v.keyword THEN TRUE
    ELSE IF v.context THEN (v.len > ContextLen \/ v.context_word)
    ELSE v.len >= MinAcronymLen /\ ~v.digits /\ v.upper

\* The call in _extract_venue: self._is_valid_venue(venue)
ValidVenue ==
    /\ field = "venue"
    /\ field_pc = "start"
    /\ field_output' = [kind |-> "valid", value |-> is_valid_venue(field_input)]
    /\ field_pc' = "done"
    /\ UNCHANGED <<field, field_input, fieldRest>>


(***************************************************************************)
(* _extract_arxiv_id and _is_valid_arxiv_id.  An identifier is             *)
(* [shape, yy, mm, len]: shape "new" for YYMM.NNNNN[vN], "old" for         *)
(* subject-class/YYMMnnn[vN]; yy and mm the numbers its first four digits  *)
(* spell; len its length.  The text is described by the identifiers that   *)
(* occur in it, in order, each with the form it is written in:             *)
(* "prefixed" (arXiv:ID), "spaced" (arXiv : ID), "url" (arxiv.org/abs/ID)  *)
(* or "bare".                                                              *)
(***************************************************************************)
NewId(y, m) == [shape |-> "new", yy |-> y, mm |-> m, len |-> 10]

OldId(y, m) == [shape |-> "old", yy |-> y, mm |-> m, len |-> 10]

NoId == [shape |-> "none", yy |-> 0, mm |-> 0, len |-> 0]

ArxivIds == {NewId(23, 0), NewId(23, 1), NewId(7, 12), NewId(23, 13), OldId(6, 5)}

ArxivForms == {"prefixed", "spaced", "url", "bare"}

\* A text holds at most MaxIds identifiers.
MaxIds == 2

ArxivTexts ==
    UNION {[1..n -> [id : ArxivIds, form : ArxivForms]] : n \in 0..MaxIds}

\* The length from which any string with a digit is taken as an identifier.
MinIdLen == 6

\* _is_valid_arxiv_id(arxiv_id); every identifier of the model holds a digit.
is_valid_arxiv_id(id) ==
    IF /\ id.shape = "new"
       /\ ((7 <= id.yy /\ id.yy <= 99) \/ (0 <= id.yy /\ id.yy <= 50))
       /\ 1 <= id.mm /\ id.mm <= 12
    THEN TRUE
    ELSE IF id.shape = "old" THEN TRUE
    ELSE id.len >= MinIdLen

\* Whether the p-th pattern of arxiv_patterns matches the occurrence o.
pattern_matches(p, o) ==
    CASE p = 1 -> o.id.shape = "new" /\ o.form = "prefixed"
      [] p = 2 -> o.id.shape = "old" /\ o.form = "prefixed"
      [] p = 3 -> o.id.shape = "new"
      [] p = 4 -> o.id.shape = "new" /\ o.form = "url"
      [] p = 5 -> o.id.shape = "old" /\ o.form = "url"
      [] p = 6 -> o.id.shape = "new" /\ o.form \in {"prefixed", "spaced"}
      [] p = 7 -> o.id.shape = "new" /\ o.form \in {"prefixed", "spaced"}

NumPatterns == 7

\* re.search(pattern, text, re.IGNORECASE): the first occurrence the pattern
\* matches, NoId when there is none.
search(p, txt) ==
    LET hits == {i \in 1..Len(txt) : pattern_matches(p, txt[i])}
    IN  IF hits = {} THEN NoId ELSE txt[SetMin(hits)].id

\* The loop over arxiv_patterns from the p-th pattern on.
RECURSIVE arxiv_from(_, _)
arxiv_from(p, txt) ==
    IF p > NumPatterns THEN NoId
    ELSE IF search(p, txt) # NoId /\ is_valid_arxiv_id(search(p, txt))
    THEN search(p, txt)
    ELSE arxiv_from(p + 1, txt)

\* _extract_arxiv_id(text)
extract_arxiv_id(txt) == arxiv_from(1, txt)

\* arxiv_id = self._extract_arxiv_id(first_page_text)
ExtractArxivId ==
    /\ field = "arxiv"
    /\ field_pc = "start"
    /\ field_output' = [kind |-> "id", value |-> extract_arxiv_id(field_input)]
    /\ field_pc' = "done"
    /\ UNCHANGED <<field, field_input, fieldRest>>

InitFields ==
    /\ field \in {"year", "venue", "arxiv"}
    /\ field_input \in CASE field = "year" -> YearInputs
                         [] field = "venue" -> VenueChoices
                         [] field = "arxiv" -> ArxivTexts
    /\ field_output = <<>>
    /\ field_pc = "start"
    /\ TruncIdle
    /\ IndexIdle
    /\ BatchIdle
    /\ InfoIdle
    /\ TitleIdle
    /\ CallIdle

NextFields == ExtractYear \/ ValidVenue \/ ExtractArxivId

SpecFields == InitFields /\ [][NextFields]_vars

(***************************************************************************)
(* Claims about the field extractors, checked under SpecFields.            *)
(***************************************************************************)
\* The runs of a path or text that spell a year of 1990..current_year+1.
CandidateYears(runs, current_year) ==
    {runs[i] : i \in 1..Len(runs)} \cap (1990..(current_year + 1))

\* C24: _extract_year returns the largest year of 1990..current_year+1 that
\* occurs in the path when there is one, else the largest such year of the
\* first-page text, else the sentinel.
C24_YearFromPathFirst ==
    (field = "year" /\ field_pc = "done") =>
        LET in_path == CandidateYears(field_input.path, field_input.current_year)
            in_text == CandidateYears(field_input.text, field_input.current_year)
        IN  IF in_path # {} THEN field_output = [kind |-> "year", value |-> SetMax(in_path)]
            ELSE IF in_text # {}
            THEN field_output = [kind |-> "year", value |-> SetMax(in_text)]
            ELSE field_output = [kind |-> "sentinel", value |-> 0]

\* C25: a venue candidate that holds a 'Firstname Lastname' pair of
\* capitalized words is accepted when it also holds a venue keyword, and
\* rejected when it holds none.
C25_KeywordOverridesNamePair ==
    (field = "venue" /\ field_pc = "done" /\ field_input.name_pair) =>
        field_output.value = field_input.keyword

\* C26: an identifier of the new format that _extract_arxiv_id returns has a
\* month of 1..12.
C26_NewFormatMonthChecked ==
    (field = "arxiv" /\ field_pc = "done" /\ field_output.value.shape = "new") =>
        (1 <= field_output.value.mm /\ field_output.value.mm <= 12)

=============================================================================
